---- MODULE Spec2Model ----
(***************************************************************************)
(* Pikus: the generic Matrix<T> of src/matrix.rs, its constructor, its     *)
(* shape predicates, transpose, identity, addition, multiplication and the *)
(* Leibniz determinant, over T = exact integers.                           *)
(*                                                                         *)
(* A Matrix is the record [rows, m, n]; rows is a sequence of sequences.   *)
(* Rust indexes from 0, TLA+ sequences from 1: rows[i][j] of the source is *)
(* rows[i + 1][j + 1] here, and a loop `for i in 0..m` ranges over 1..m.   *)
(* A Result is [kind |-> "Ok", val |-> v] or [kind |-> "Err", err |-> e];  *)
(* an index out of bounds is a Rust panic, [kind |-> "Panic"].             *)
(***************************************************************************)
EXTENDS Integers, Sequences, FiniteSets

VARIABLES m1, m2, op, arg, result

vars == <<m1, m2, op, arg, result>>

(* ----------------------------- bounds ---------------------------------- *)

\* element values the inputs are drawn from
Elems == {0, 1}

\* largest row and column count of the matrices the operations are given
MaxDim == 3

\* largest number of cells of each operand of the binary operations
MaxCells == 6

\* Matrix::new is given at most MaxRows rows of at most MaxLen elements each
MaxRows == 3

MaxLen == 2

(* ----------------------------- results --------------------------------- *)

Ok(v) == [kind |-> "Ok", val |-> v]

Err(e) == [kind |-> "Err", err |-> e]

Panic == [kind |-> "Panic"]

NoResult == [kind |-> "None"]

IsOk(r) == r.kind = "Ok"

IsErr(r, e) == r.kind = "Err" /\ r.err = e

\* a caller's variable that holds no matrix (yet)
Unbound == [rows |-> <<>>, m |-> 0, n |-> 0]

(* ------------------------- Matrix::new --------------------------------- *)

Matrix_new_off_by_one(rows) ==
    LET m == Len(rows) IN
    IF m = 0 THEN Err("EmptyVector")
    ELSE LET n == Len(rows[1]) IN
         IF n = 0 THEN Err("EmptyVector")
         ELSE IF \E i \in 3..m : Len(rows[i]) # n
              THEN Err("NonUniform")
              ELSE Ok([rows |-> rows, m |-> m, n |-> n])

Matrix_new(rows) ==
    LET m == Len(rows) IN
    IF m = 0 THEN Err("EmptyVector")
    ELSE LET n == Len(rows[1]) IN
         IF n = 0 THEN Err("EmptyVector")
         \* for i in 1..m (0-based): rows 2..m here; the first mismatch returns
         ELSE IF \E i \in 2..m : Len(rows[i]) # n
              THEN Err("NonUniform")
              ELSE Ok([rows |-> rows, m |-> m, n |-> n])

\* all sequences over S of length 0..k
SeqsUpTo(S, k) == UNION {[1..l -> S] : l \in 0..k}

\* the inputs of Matrix::new: any sequence of rows, ragged and empty included
RowsInputs == SeqsUpTo(SeqsUpTo(Elems, MaxLen), MaxRows)

\* the rectangular inputs with 1..d rows and 1..d columns
UniformRows(d) ==
    UNION {[1..m -> [1..n -> Elems]] : <<m, n>> \in (1..d) \X (1..d)}

\* the matrices Matrix::new builds from them
Built(d) == {Matrix_new(rows).val : rows \in UniformRows(d)}

\* the rectangular inputs of at most c cells
SmallRows(c) ==
    UNION {[1..s[1] -> [1..s[2] -> Elems]] :
              s \in {t \in (1..c) \X (1..c) : t[1] * t[2] <= c}}

\* the matrices Matrix::new builds from them
BuiltSmall(c) == {Matrix_new(rows).val : rows \in SmallRows(c)}

(* ------------------------- Matrix::transpose --------------------------- *)

\* self.rows[i][j] for i in 0..self.m, j in 0..self.n stays inside the rows
InBounds(self) ==
    /\ self.m <= Len(self.rows)
    /\ \A i \in 1..self.m : self.n <= Len(self.rows[i])

transpose_copies_rows(self) ==
    IF ~InBounds(self) THEN Panic
    ELSE Ok([rows |-> self.rows, m |-> self.n, n |-> self.m])

transpose_keeps_shape(self) ==
    IF ~InBounds(self) THEN Panic
    ELSE Ok([rows |-> [j \in 1..self.n |-> [i \in 1..self.m |-> self.rows[i][j]]],
             m |-> self.m,
             n |-> self.n])

transpose(self) ==
    IF ~InBounds(self) THEN Panic
    ELSE Ok([rows |-> [j \in 1..self.n |-> [i \in 1..self.m |-> self.rows[i][j]]],
             m |-> self.n,
             n |-> self.m])

(* ------------------------- create_identity_matrix ---------------------- *)

create_identity_matrix_unchecked(dim) ==
    Ok([rows |-> [i \in 1..dim |-> [j \in 1..dim |-> IF j = i THEN 1 ELSE 0]],
        m |-> dim,
        n |-> dim])

create_identity_matrix_all_ones(dim) ==
    IF dim = 0 THEN Err("EmptyVector")
    ELSE Ok([rows |-> [i \in 1..dim |-> [j \in 1..dim |-> 1]],
             m |-> dim,
             n |-> dim])

create_identity_matrix(dim) ==
    IF dim = 0 THEN Err("EmptyVector")
    ELSE Ok([rows |-> [i \in 1..dim |->
                          [j \in 1..dim |-> IF j = i THEN 1 ELSE 0]],
             m |-> dim,
             n |-> dim])

(* ------------------------- shape predicates ---------------------------- *)

is_square(matrix) == ~(matrix.m # matrix.n)

can_add(matrix_1, matrix_2) ==
    IF matrix_1.m # matrix_2.n THEN FALSE
    ELSE IF matrix_1.n # matrix_2.n THEN FALSE
    ELSE TRUE

can_multiply(matrix_1, matrix_2) == ~(matrix_1.n # matrix_2.m)

(* ------------------------- util::get_perms, get_permutation_sign ------- *)

\* the sequence s without its k-th element
Without(s, k) == SubSeq(s, 1, k - 1) \o SubSeq(s, k + 1, Len(s))

RECURSIVE Prefixed(_, _, _)
\* x put in front of each of perms[k..]
Prefixed(x, perms, k) ==
    IF k > Len(perms) THEN <<>>
    ELSE <<(<<x>> \o perms[k])>> \o Prefixed(x, perms, k + 1)

RECURSIVE perms_of(_)
RECURSIVE perms_from(_, _)
\* every arrangement of the distinct items, by recursive backtracking
perms_of(items) ==
    IF Len(items) = 0 THEN << <<>> >> ELSE perms_from(items, 1)

\* the arrangements that start with items[k], items[k + 1], ...
perms_from(items, k) ==
    IF k > Len(items) THEN <<>>
    ELSE Prefixed(items[k], perms_of(Without(items, k)), 1)
         \o perms_from(items, k + 1)

\* every permutation of the indices 0..size-1, each once
get_perms(size) == perms_of([i \in 1..size |-> i - 1])

\* the number of pairs i < j with perm[i] > perm[j]
Inversions(perm) ==
    Cardinality({p \in (1..Len(perm)) \X (1..Len(perm)) :
                    p[1] < p[2] /\ perm[p[1]] > perm[p[2]]})

\* +1 for an even number of inversions, -1 for an odd one
get_permutation_sign(perm) == IF Inversions(perm) % 2 = 0 THEN 1 ELSE -1

(* ------------------------- get_determinant ----------------------------- *)

RECURSIVE term_loop(_, _, _, _, _)
\* for i in 0..size { term *= rows[i][perm[i]] }, from the 1-based row i on
term_loop(rows, perm, size, i, term) ==
    IF i > size THEN term
    ELSE term_loop(rows, perm, size, i + 1, term * rows[i][perm[i] + 1])

RECURSIVE perm_loop_unsigned(_, _, _, _, _)
perm_loop_unsigned(rows, perms, size, k, determinant) ==
    IF k > Len(perms) THEN determinant
    ELSE perm_loop_unsigned(rows, perms, size, k + 1,
                            determinant + term_loop(rows, perms[k], size, 1, 1))

RECURSIVE perm_loop(_, _, _, _, _)
\* for perm in perms { determinant += sign * term }, from the k-th one on
perm_loop(rows, perms, size, k, determinant) ==
    IF k > Len(perms) THEN determinant
    ELSE LET sign == get_permutation_sign(perms[k])
             term == term_loop(rows, perms[k], size, 1, 1)
         IN perm_loop(rows, perms, size, k + 1, determinant + sign * term)

\* rows[i][perm[i]] stays inside the rows for every i < size
DetInBounds(matrix) ==
    \A i \in 1..Len(matrix.rows) : Len(matrix.rows) <= Len(matrix.rows[i])

get_determinant_unsigned(matrix) ==
    IF ~is_square(matrix) THEN Err("NotImplemented")
    ELSE IF ~DetInBounds(matrix) THEN Panic
    ELSE LET size == Len(matrix.rows) IN
         Ok(perm_loop_unsigned(matrix.rows, get_perms(size), size, 1, 0))

get_determinant(matrix) ==
    IF ~is_square(matrix) THEN Err("NotImplemented")
    ELSE IF ~DetInBounds(matrix) THEN Panic
    ELSE LET size == Len(matrix.rows) IN
         Ok(perm_loop(matrix.rows, get_perms(size), size, 1, 0))

(* ------------------------- operations::add_vec ------------------------- *)

\* the element-wise sum of two vectors; vectors of different lengths are refused
add_vec(vec_1, vec_2) ==
    IF Len(vec_1) # Len(vec_2) THEN Err("Mismatch")
    ELSE Ok([k \in 1..Len(vec_1) |-> vec_1[k] + vec_2[k]])

(* ------------------------- add_matrices -------------------------------- *)

RECURSIVE add_rows_loop(_, _, _, _)
\* for i in 0..matrix_1.m { new_matrix_rows.push(add_vec(rows[i], rows[i])?) },
\* from the 1-based row i on; a row that either matrix lacks is a panic
add_rows_loop(matrix_1, matrix_2, i, new_matrix_rows) ==
    IF i > matrix_1.m
    THEN Ok([rows |-> new_matrix_rows, m |-> matrix_1.m, n |-> matrix_1.n])
    ELSE IF i > Len(matrix_1.rows) \/ i > Len(matrix_2.rows) THEN Panic
    ELSE LET new_row == add_vec(matrix_1.rows[i], matrix_2.rows[i]) IN
         IF ~IsOk(new_row) THEN new_row
         ELSE add_rows_loop(matrix_1, matrix_2, i + 1,
                            Append(new_matrix_rows, new_row.val))

add_matrices(matrix_1, matrix_2) ==
    IF ~can_add(matrix_1, matrix_2) THEN Err("Mismatch")
    ELSE add_rows_loop(matrix_1, matrix_2, 1, <<>>)

(* ------------------------- multiply_matrices --------------------------- *)

RECURSIVE element_sum_loop(_, _, _, _, _, _)
\* for k in 0..matrix_1.n { element_sum += rows_1[i][k] * rows_2[k][j] }
element_sum_loop(matrix_1, matrix_2, i, j, k, element_sum) ==
    IF k > matrix_1.n THEN element_sum
    ELSE element_sum_loop(matrix_1, matrix_2, i, j, k + 1,
             element_sum + matrix_1.rows[i][k] * matrix_2.rows[k][j])

\* matrix_1.rows[i][k] and matrix_2.rows[k][j] stay inside the rows
MulInBounds(matrix_1, matrix_2) ==
    /\ matrix_1.m <= Len(matrix_1.rows)
    /\ \A i \in 1..matrix_1.m : matrix_1.n <= Len(matrix_1.rows[i])
    /\ matrix_1.n <= Len(matrix_2.rows)
    /\ \A k \in 1..matrix_1.n : matrix_2.n <= Len(matrix_2.rows[k])

multiply_matrices_from_one(matrix_1, matrix_2) ==
    IF matrix_1.m = 0 \/ matrix_1.n = 0 \/ matrix_2.m = 0 \/ matrix_2.n = 0
    THEN Err("EmptyVector")
    ELSE IF ~can_multiply(matrix_1, matrix_2) THEN Err("Mismatch")
    ELSE IF ~MulInBounds(matrix_1, matrix_2) THEN Panic
    ELSE Ok([rows |-> [i \in 1..matrix_1.m |->
                          [j \in 1..matrix_2.n |->
                              element_sum_loop(matrix_1, matrix_2, i, j, 1, 1)]],
             m |-> matrix_1.m,
             n |-> matrix_2.n])

multiply_matrices(matrix_1, matrix_2) ==
    IF matrix_1.m = 0 \/ matrix_1.n = 0 \/ matrix_2.m = 0 \/ matrix_2.n = 0
    THEN Err("EmptyVector")
    ELSE IF ~can_multiply(matrix_1, matrix_2) THEN Err("Mismatch")
    ELSE IF ~MulInBounds(matrix_1, matrix_2) THEN Panic
    ELSE Ok([rows |-> [i \in 1..matrix_1.m |->
                          [j \in 1..matrix_2.n |->
                              element_sum_loop(matrix_1, matrix_2, i, j, 1, 0)]],
             m |-> matrix_1.m,
             n |-> matrix_2.n])

(* ------------------------- specification: constructors ----------------- *)

\* the caller holds the rows for Matrix::new and has made no call; it makes
\* one call, of Matrix::new on them or of create_identity_matrix
InitNew ==
    /\ m1 = Unbound
    /\ m2 = Unbound
    /\ op = "init"
    /\ arg \in RowsInputs
    /\ result = NoResult

\* Matrix::new(arg)
New ==
    /\ op = "init"
    /\ op' = "new"
    /\ result' = Matrix_new(arg)
    /\ UNCHANGED <<m1, m2, arg>>

\* create_identity_matrix(dim)
Identity ==
    \E dim \in 0..MaxDim :
        /\ op = "init"
        /\ op' = "identity"
        /\ arg' = dim
        /\ result' = create_identity_matrix(dim)
        /\ UNCHANGED <<m1, m2>>

NextNew == New \/ Identity

SpecNew == InitNew /\ [][NextNew]_vars

(* C5: Matrix::new(rows) fails with EmptyVector when rows is empty or its
   first row is empty (whatever the later rows are), fails with NonUniform
   when the first row is non-empty and some row's length differs from it,
   and otherwise succeeds with m = len(rows), n = len(rows[0]) and the rows
   stored unchanged. *)
C5_NewContract ==
    op = "new" =>
        LET rows == arg IN
        IF rows = <<>> \/ (Len(rows) > 0 /\ rows[1] = <<>>)
        THEN IsErr(result, "EmptyVector")
        ELSE IF \E i \in 1..Len(rows) : Len(rows[i]) # Len(rows[1])
             THEN IsErr(result, "NonUniform")
             ELSE /\ IsOk(result)
                  /\ result.val.m = Len(rows)
                  /\ result.val.n = Len(rows[1])
                  /\ result.val.rows = rows

\* a ragged input whose only short row is the last one is refused
C5_Witness ==
    /\ op = "new"
    /\ Len(arg) = 3
    /\ Len(arg[1]) = 2
    /\ Len(arg[2]) = 2
    /\ Len(arg[3]) = 1
    /\ IsErr(result, "NonUniform")

(* C10: create_identity_matrix(dim) fails with EmptyVector when dim = 0 and
   for every dim >= 1 returns a dim x dim matrix with 1 on the diagonal and
   0 everywhere else. *)
C10_Identity ==
    op = "identity" =>
        IF arg = 0
        THEN IsErr(result, "EmptyVector")
        ELSE /\ IsOk(result)
             /\ result.val.m = arg
             /\ result.val.n = arg
             /\ Len(result.val.rows) = arg
             /\ \A i \in 1..arg :
                   /\ Len(result.val.rows[i]) = arg
                   /\ \A j \in 1..arg :
                         result.val.rows[i][j] = (IF i = j THEN 1 ELSE 0)

\* the 3 x 3 identity has been built
C10_Witness ==
    /\ op = "identity"
    /\ arg = 3
    /\ IsOk(result)
    /\ result.val.rows = <<<<1, 0, 0>>, <<0, 1, 0>>, <<0, 0, 1>>>>

(* ------------------------- specification: one matrix ------------------- *)

\* the caller holds one matrix that Matrix::new built, and makes one call
InitUnary ==
    /\ m1 \in Built(MaxDim)
    /\ m2 = Unbound
    /\ op = "init"
    /\ arg = <<>>
    /\ result = NoResult

\* m1.transpose()
Transpose ==
    /\ op = "init"
    /\ op' = "transpose"
    /\ arg' = <<>>
    /\ result' = transpose(m1)
    /\ UNCHANGED <<m1, m2>>

\* get_determinant(&m1)
Determinant ==
    /\ op = "init"
    /\ op' = "determinant"
    /\ arg' = <<>>
    /\ result' = get_determinant(m1)
    /\ UNCHANGED <<m1, m2>>

\* multiply_matrices(m1, create_identity_matrix(m1.n)?): the identity on the right
MultiplyByIdentity ==
    LET identity == create_identity_matrix(m1.n) IN
    /\ op = "init"
    /\ op' = "multiply_by_identity"
    /\ arg' = <<>>
    /\ m2' = IF IsOk(identity) THEN identity.val ELSE m2
    /\ result' = IF IsOk(identity)
                 THEN multiply_matrices(m1, identity.val)
                 ELSE identity
    /\ UNCHANGED m1

\* multiply_matrices(create_identity_matrix(m1.m)?, m1): the identity on the left
IdentityMultiply ==
    LET identity == create_identity_matrix(m1.m) IN
    /\ op = "init"
    /\ op' = "identity_multiply"
    /\ arg' = <<>>
    /\ m2' = IF IsOk(identity) THEN identity.val ELSE m2
    /\ result' = IF IsOk(identity)
                 THEN multiply_matrices(identity.val, m1)
                 ELSE identity
    /\ UNCHANGED m1

NextUnary ==
    Transpose \/ Determinant \/ MultiplyByIdentity \/ IdentityMultiply

SpecUnary == InitUnary /\ [][NextUnary]_vars

(* C9: M.transpose() always succeeds, leaves M unchanged and returns a
   matrix with m' = M.n, n' = M.m and result[j][i] = M[i][j] for every cell
   of M; transposing the result gives M back, in shape and elements. *)
C9_Transpose ==
    [][op' = "transpose" =>
        /\ m1' = m1
        /\ IsOk(result')
        /\ result'.val.m = m1.n
        /\ result'.val.n = m1.m
        /\ Len(result'.val.rows) = m1.n
        /\ \A j \in 1..m1.n :
              /\ Len(result'.val.rows[j]) = m1.m
              /\ \A i \in 1..m1.m : result'.val.rows[j][i] = m1.rows[i][j]
        /\ transpose(result'.val) = Ok(m1)]_vars

\* a 2 x 3 matrix with distinct-looking rows has been transposed to 3 x 2
C9_Witness ==
    /\ op = "transpose"
    /\ m1.m = 2
    /\ m1.n = 3
    /\ m1.rows = <<<<0, 1, 1>>, <<0, 0, 1>>>>
    /\ IsOk(result)
    /\ result.val.rows = <<<<0, 0>>, <<1, 0>>, <<1, 1>>>>

\* the bijections of 0..n-1, as functions
Bijections(n) ==
    {f \in [0..(n - 1) -> 0..(n - 1)] :
        \A i, j \in 0..(n - 1) : i # j => f[i] # f[j]}

BijectionsOfSize == [n \in 0..MaxDim |-> Bijections(n)]

\* +1 when f has an even number of inversions, -1 when odd
SignOf(f) ==
    LET inv == {p \in (DOMAIN f) \X (DOMAIN f) : p[1] < p[2] /\ f[p[1]] > f[p[2]]}
    IN IF Cardinality(inv) % 2 = 0 THEN 1 ELSE -1

SignOfBijection == [n \in 0..MaxDim |-> [f \in BijectionsOfSize[n] |-> SignOf(f)]]

RECURSIVE ProductOf(_, _, _)
\* the product of rows[i][f(i)] over the 0-based rows i..n-1
ProductOf(rows, f, i) ==
    IF i \notin DOMAIN f THEN 1
    ELSE rows[i + 1][f[i] + 1] * ProductOf(rows, f, i + 1)

RECURSIVE SumOf(_)
\* the sum of the values of a function with a finite domain
SumOf(fn) ==
    IF DOMAIN fn = {} THEN 0
    ELSE LET x == CHOOSE x \in DOMAIN fn : TRUE
         IN fn[x] + SumOf([y \in (DOMAIN fn) \ {x} |-> fn[y]])

\* the Leibniz sum of a square matrix
Leibniz(matrix) ==
    SumOf([f \in BijectionsOfSize[matrix.m] |->
              SignOfBijection[matrix.m][f] * ProductOf(matrix.rows, f, 0)])

\* get_perms(n) lists every bijection of 0..n-1, and none twice
PermsEachOnce ==
    \A n \in 0..MaxDim :
        LET perms == get_perms(n) IN
        /\ Len(perms) = Cardinality(BijectionsOfSize[n])
        /\ {[i \in 0..(n - 1) |-> perms[k][i + 1]] : k \in 1..Len(perms)}
              = BijectionsOfSize[n]

\* the determinants the specification lists
DeterminantExamples ==
    /\ \A n \in 1..MaxDim :
          get_determinant(create_identity_matrix(n).val) = Ok(1)
    /\ get_determinant(Matrix_new(<<<<1, 2>>, <<3, 4>>>>).val) = Ok(-2)
    /\ get_determinant(
          Matrix_new(<<<<1, 2, 3>>, <<4, 5, 6>>, <<7, 8, 9>>>>).val) = Ok(0)
    /\ get_determinant(
          Matrix_new(<<<<2, 0, 1>>, <<1, 3, 2>>, <<1, 1, 1>>>>).val) = Ok(0)
    /\ get_determinant(
          Matrix_new(<<<<2, -1, 0>>, <<1, 3, 5>>, <<4, 1, 1>>>>).val) = Ok(-23)

(* C4: get_determinant fails with NotImplemented exactly when the matrix is
   not square; for a square matrix of size n it returns the Leibniz sum over
   the n! permutations of 0..n-1, each once, of sign * product of
   matrix[i][sigma(i)], the sign +1 for an even and -1 for an odd number of
   inversions; so the identity has determinant 1, [[1,2],[3,4]] has -2 and
   [[1,2,3],[4,5,6],[7,8,9]] has 0. *)
C4_Determinant ==
    op = "determinant" =>
        /\ IsErr(result, "NotImplemented") <=> m1.m # m1.n
        /\ m1.m = m1.n => result = Ok(Leibniz(m1))
        /\ PermsEachOnce
        /\ DeterminantExamples

\* the determinant of an odd 3 x 3 permutation matrix has been computed
C4_Witness ==
    /\ op = "determinant"
    /\ m1.rows = <<<<0, 1, 0>>, <<1, 0, 0>>, <<0, 0, 1>>>>
    /\ result = Ok(-1)

(* C7: for every square matrix M of size n >= 1, multiply_matrices(M,
   create_identity_matrix(n)) and multiply_matrices(create_identity_matrix(n),
   M) both succeed and return a matrix with the m, the n and the elements
   of M. *)
C7_IdentityLaw ==
    (op \in {"multiply_by_identity", "identity_multiply"} /\ m1.m = m1.n) =>
        /\ IsOk(result)
        /\ result.val.m = m1.m
        /\ result.val.n = m1.n
        /\ result.val.rows = m1.rows

\* a 3 x 3 matrix that is not symmetric has been multiplied by the identity,
\* which is the second operand
C7_Witness ==
    /\ op = "multiply_by_identity"
    /\ m1.rows = <<<<0, 1, 1>>, <<0, 0, 1>>, <<1, 0, 1>>>>
    /\ m2.rows = <<<<1, 0, 0>>, <<0, 1, 0>>, <<0, 0, 1>>>>
    /\ result = Ok(m1)

(* ------------------------- specification: two matrices ------------------ *)

\* the caller holds two matrices that Matrix::new built
Init ==
    /\ m1 \in BuiltSmall(MaxCells)
    /\ m2 \in BuiltSmall(MaxCells)
    /\ op = "init"
    /\ arg = <<>>
    /\ result = NoResult

\* add_matrices(m1, m2), on copies of the two
Add ==
    /\ op = "init"
    /\ op' = "add"
    /\ result' = add_matrices(m1, m2)
    /\ UNCHANGED <<m1, m2, arg>>

\* multiply_matrices(m1, m2), on copies of the two
Multiply ==
    /\ op = "init"
    /\ op' = "multiply"
    /\ result' = multiply_matrices(m1, m2)
    /\ UNCHANGED <<m1, m2, arg>>

\* the operations that return a matrix
MatrixOps == {"new", "identity", "transpose", "add", "multiply"}

\* a matrix the model's bounds still hold
Fits(matrix) ==
    /\ matrix.m * matrix.n <= MaxCells
    /\ \A i \in 1..Len(matrix.rows) :
          \A j \in 1..Len(matrix.rows[i]) : matrix.rows[i][j] \in Elems

\* the caller keeps a successful result as its first matrix
KeepFirst ==
    /\ op \in MatrixOps
    /\ IsOk(result)
    /\ Fits(result.val)
    /\ m1' = result.val
    /\ op' = "init"
    /\ result' = NoResult
    /\ UNCHANGED <<m2, arg>>

\* the caller keeps a successful result as its second matrix
KeepSecond ==
    /\ op \in MatrixOps
    /\ IsOk(result)
    /\ Fits(result.val)
    /\ m2' = result.val
    /\ op' = "init"
    /\ result' = NoResult
    /\ UNCHANGED <<m1, arg>>

Next == Transpose \/ Add \/ Multiply \/ KeepFirst \/ KeepSecond

Spec == Init /\ [][Next]_vars

\* a matrix that keeps the invariants of the data model
WellFormed(matrix) ==
    /\ matrix.m >= 1
    /\ matrix.n >= 1
    /\ Len(matrix.rows) = matrix.m
    /\ \A i \in 1..Len(matrix.rows) : Len(matrix.rows[i]) = matrix.n

SameShape(a, b) == a.m = b.m /\ a.n = b.n

(* C1: add_matrices(a, b) fails with Mismatch when can_add(a, b) is false,
   can_add being a.m = b.n and a.n = b.n, and in every other case returns a
   new matrix with m = a.m, n = a.n and result[i][j] = a[i][j] + b[i][j] for
   every cell of a. *)
C1_AddContract ==
    op = "add" =>
        IF ~(m1.m = m2.n /\ m1.n = m2.n)
        THEN IsErr(result, "Mismatch")
        ELSE /\ IsOk(result)
             /\ result.val.m = m1.m
             /\ result.val.n = m1.n
             /\ \A i \in 1..m1.m : \A j \in 1..m1.n :
                   result.val.rows[i][j] = m1.rows[i][j] + m2.rows[i][j]

(* C2: add_matrices(a, b) fails with Mismatch whenever a and b do not have
   the same shape; it never returns a matrix for two matrices of different
   shapes. *)
C2_AddRefusesDifferentShapes ==
    (op = "add" /\ ~SameShape(m1, m2)) => IsErr(result, "Mismatch")

(* C3: for all matrices A and B of the same shape, square or not,
   add_matrices(A, B) returns a matrix, and it is element-wise equal to the
   matrix add_matrices(B, A) returns. *)
C3_AddCommutes ==
    (op = "add" /\ SameShape(m1, m2)) =>
        /\ IsOk(result)
        /\ IsOk(add_matrices(m2, m1))
        /\ result.val.rows = add_matrices(m2, m1).val.rows

\* the sum over k of a[i][k] * b[k][j]
DotProduct(a, b, i, j) == SumOf([k \in 1..a.n |-> a.rows[i][k] * b.rows[k][j]])

(* C6: multiply_matrices(a, b) fails with Mismatch exactly when a.n # b.m,
   never with EmptyVector, and otherwise returns a matrix with m = a.m,
   n = b.n and result[i][j] = the sum over k in 0..a.n-1 of
   a[i][k] * b[k][j]. *)
C6_MultiplyContract ==
    op = "multiply" =>
        /\ IsErr(result, "Mismatch") <=> m1.n # m2.m
        /\ ~IsErr(result, "EmptyVector")
        /\ m1.n = m2.m =>
              /\ IsOk(result)
              /\ result.val.m = m1.m
              /\ result.val.n = m2.n
              /\ Len(result.val.rows) = m1.m
              /\ \A i \in 1..m1.m :
                    /\ Len(result.val.rows[i]) = m2.n
                    /\ \A j \in 1..m2.n :
                          result.val.rows[i][j] = DotProduct(m1, m2, i, j)

\* a 2 x 3 matrix has been multiplied by a 3 x 2 matrix
C6_Witness ==
    /\ op = "multiply"
    /\ m1.rows = <<<<1, 1, 0>>, <<0, 1, 1>>>>
    /\ m2.rows = <<<<1, 0>>, <<1, 1>>, <<0, 1>>>>
    /\ IsOk(result)
    /\ result.val.rows = <<<<2, 1>>, <<1, 2>>>>

(* C8: every matrix reached from successful Matrix::new calls by transpose,
   add_matrices and multiply_matrices, keeping their successful results,
   has m >= 1, n >= 1, len(rows) = m and n elements in every row. *)
C8_ShapeInvariant ==
    /\ WellFormed(m1)
    /\ WellFormed(m2)
    /\ (op \in MatrixOps /\ IsOk(result)) => WellFormed(result.val)

\* a sum of a square matrix and a matrix with more rows has been returned
C8_Witness ==
    /\ op = "add"
    /\ m1.m = 2
    /\ m2.m = 3
    /\ IsOk(result)
    /\ WellFormed(result.val)

====
